---- MODULE Spec2Model ----
(***************************************************************************)
(* Experiment attribution over Optimizely Enriched Event data.             *)
(*                                                                         *)
(* Two notebooks are modelled:                                             *)
(*   - "Computing Experiment Datasets #1: Experiment Subjects"             *)
(*     (src/unnamed/part_000): window filter, RANK()-based first-decision  *)
(*     selection;                                                          *)
(*   - "Working with Enriched Events data using Spark SQL"                 *)
(*     (src/labs/query-enriched-event-data-with-spark/...ipynb): the four  *)
(*     unique-visitor / conversion-count queries.                          *)
(*                                                                         *)
(* A Spark table or view is an unordered multiset of rows: it is modelled  *)
(* as a bag of records.  The result of a query with ORDER BY is a sequence *)
(* of rows; rows that compare equal under the sort key may come out in any *)
(* order.  Timestamps are small naturals.                                  *)
(***************************************************************************)
EXTENDS Naturals, Sequences, FiniteSets, Bags, TLC

\* ------------------------------------------------------------------ bounds
MaxTime == 2
\* rows in the decisions directory
MaxDecisions == 2
\* rows in the events directory when it is queried beside the decisions
MaxJoinEvents == 1
\* length of an event's `experiments` list in that case
MaxJoinExperiments == 1
\* rows in the events directory when the events are queried alone
MaxEvents == 2
\* length of an event's `experiments` list in that case
MaxExperiments == 2
\* latest timestamp of a row when the queries are evaluated group by group
MaxWorkerTime == 1
\* latest timestamp of a decision when the notebook is executed repeatedly
MaxRunTime == 0

\* ------------------------------------------------------- value universes
Subjects == {"s1", "s2"}
Experiments == {"e1", "e2"}
Variations == {"vA", "vB"}
EventNames == {"purchase", "signup"}
Times == 0..MaxTime

DecisionRows ==
  [visitor_id : Subjects, experiment_id : Experiments, variation_id : Variations,
   timestamp : Times, is_holdback : BOOLEAN]

\* the elements of an event's `experiments` array
Attributions == [experiment_id : Experiments, variation_id : Variations]

EventRows(maxlen) ==
  [visitor_id : Subjects, event_name : EventNames, timestamp : Times,
   experiments : UNION {[1..k -> Attributions] : k \in 0..maxlen}]

\* The bag of the elements of the sequence s.
SeqToBag(s) ==
  [r \in {s[i] : i \in 1..Len(s)} |-> Cardinality({i \in 1..Len(s) : s[i] = r})]

\* All bags of at most n rows drawn from the universe U.
Tables(U, n) == {SeqToBag(s) : s \in UNION {[1..k -> U] : k \in 0..n}}

\* What the decisions directory may hold.
DecisionTables == Tables(DecisionRows, MaxDecisions)

\* What the events directory may hold when it is queried beside the decisions.
JoinEventTables == Tables(EventRows(MaxJoinExperiments), MaxJoinEvents)

\* What the events directory may hold when the events are queried alone.
EventTables == Tables(EventRows(MaxExperiments), MaxEvents)

\* What the decisions directory may hold when the notebook is executed repeatedly.
RunDecisionTables ==
  Tables({r \in DecisionRows : r.timestamp <= MaxRunTime}, MaxDecisions)

\* The same directories, smaller, when the queries are evaluated group by group.
WorkerDecisionTables ==
  Tables({r \in DecisionRows : r.timestamp <= MaxWorkerTime}, MaxDecisions)

WorkerEventTables ==
  Tables({r \in EventRows(MaxJoinExperiments) : r.timestamp <= MaxWorkerTime}, MaxJoinEvents)

VARIABLES
  pc,                   \* the next cell of the notebook to execute
  decisions_start,      \* part_000: analysis window, lower bound
  decisions_end,        \* part_000: analysis window, upper bound
  loaded_decisions,     \* part_000: the temp view over the decisions directory
  experiment_subjects,  \* part_000: rows returned by the experiment_subjects view
  subjects_output_dir,  \* part_000: the partition directories under subjects_output_dir
  overwritten,          \* part_000: the partition directories the last write found there
  subject_count,        \* part_000: rows returned by the subject_count query
  decisions,            \* queries notebook: temp view "decisions"
  events,               \* queries notebook: temp view "events"
  start,                \* queries notebook: analysis window, lower bound
  end,                  \* queries notebook: analysis window, upper bound
  unique_visitors_web,  \* queries notebook: result of "Unique visitors (Optimizely Web)"
  unique_visitors_fs,   \* queries notebook: result of "Unique visitors (Full Stack)"
  conversion_count_web, \* queries notebook: result of "Conversion count (Optimizely Web)"
  conversion_count_fs,  \* queries notebook: result of "Conversion count (Optimizely Full Stack)"
  job,                  \* the query the execution engine evaluates group by group
  tasks,                \* its groups that no worker has taken yet
  partials,             \* the results of the groups that are not merged yet
  merged                \* the merged results of its groups

outputs_vars == <<subjects_output_dir, overwritten, subject_count>>
subjects_vars ==
  <<decisions_start, decisions_end, loaded_decisions, experiment_subjects, outputs_vars>>
tables_vars == <<decisions, events, start, end>>
results_vars ==
  <<unique_visitors_web, unique_visitors_fs, conversion_count_web, conversion_count_fs>>
workers_vars == <<job, tasks, partials, merged>>
vars == <<pc, subjects_vars, tables_vars, results_vars, workers_vars>>

\* --------------------------------------------------------- SQL primitives

\* Spark's ordering of the string values that occur in the model.
StringOrder == <<"e1", "e2", "purchase", "s1", "s2", "signup", "vA", "vB">>
Rank(x) == CHOOSE i \in DOMAIN StringOrder : StringOrder[i] = x

\* (mutant) lo <= x AND x < hi
BetweenExclusiveEnd(ts, lo, hi) == lo <= ts /\ ts < hi
\* x BETWEEN lo AND hi
Between(ts, lo, hi) == lo <= ts /\ ts <= hi

\* SELECT * FROM rows WHERE timestamp BETWEEN lo AND hi
WindowFilter(rows, lo, hi) ==
  [r \in {x \in DOMAIN rows : Between(x.timestamp, lo, hi)} |-> rows[r]]

\* ------------------------------------------- notebook 1: experiment subjects

\* (mutant) the query reads loaded_decisions: the window is not applied
AllLoadedDecisions == loaded_decisions
\* (mutant) the view also drops the holdback decisions, as the Full Stack queries do
DecisionsWithoutHoldbacks ==
  LET D == WindowFilter(loaded_decisions, decisions_start, decisions_end)
  IN  [r \in {x \in DOMAIN D : x.is_holdback = FALSE} |-> D[r]]
\* CREATE OR REPLACE TEMPORARY VIEW decisions
decisions_view == WindowFilter(loaded_decisions, decisions_start, decisions_end)

\* (mutant) PARTITION BY experiment_id
SameExperimentOnly(a, b) == a.experiment_id = b.experiment_id
\* PARTITION BY experiment_id, {subject_id}
SamePartition(a, b) ==
  a.experiment_id = b.experiment_id /\ a.visitor_id = b.visitor_id

\* (mutant) ROW_NUMBER() with variation_id as a secondary sort key
RowNumberRnk(r, D) ==
  1 + BagCardinality([x \in {y \in DOMAIN D : SamePartition(y, r) /\
                                  (y.timestamp < r.timestamp \/
                                   (y.timestamp = r.timestamp /\ Rank(y.variation_id) < Rank(r.variation_id)))}
                      |-> D[x]])
\* (mutant) ORDER BY timestamp DESC: the last decision of the partition
LastRnk(r, D) ==
  1 + BagCardinality([x \in {y \in DOMAIN D : SamePartition(y, r) /\ y.timestamp > r.timestamp}
                      |-> D[x]])
\* RANK() OVER (PARTITION BY ... ORDER BY timestamp ASC): one more than the number
\* of rows of the partition that sort strictly before r.
rnk(r, D) ==
  1 + BagCardinality([x \in {y \in DOMAIN D : SamePartition(y, r) /\ y.timestamp < r.timestamp}
                      |-> D[x]])

\* SELECT {subject_id}, experiment_id, variation_id, timestamp
SubjectColumns(r) ==
  [visitor_id |-> r.visitor_id, experiment_id |-> r.experiment_id,
   variation_id |-> r.variation_id, timestamp |-> r.timestamp]

\* The rows of the experiment_subjects view, before ORDER BY.
SubjectRows(D) ==
  BagOfAll(SubjectColumns, [r \in {x \in DOMAIN D : rnk(x, D) = 1} |-> D[r]])

\* ORDER BY timestamp ASC
SortedByTimestamp(s) ==
  \A i \in 1..Len(s), j \in 1..Len(s) : i < j => s[i].timestamp <= s[j].timestamp

\* Every row sequence the ordered query may return for the bag B.
Orderings(B) ==
  {s \in [1..BagCardinality(B) -> BagToSet(B)] : SeqToBag(s) = B /\ SortedByTimestamp(s)}

\* The columns of a row in a partition directory: experiment_id is the directory's name.
FileColumns(r) ==
  [visitor_id |-> r.visitor_id, variation_id |-> r.variation_id, timestamp |-> r.timestamp]

\* .partitionBy("experiment_id"): one directory per experiment_id of the rows of B,
\* holding the rows of that experiment.
PartitionedBy(B) ==
  [e \in {r.experiment_id : r \in DOMAIN B} |->
     BagOfAll(FileColumns, [r \in {x \in DOMAIN B : x.experiment_id = e} |-> B[r]])]

\* (mutant) partitionOverwriteMode = dynamic: only the partitions written are replaced
OverwritePartitions(old, new) ==
  [e \in DOMAIN old \cup DOMAIN new |-> IF e \in DOMAIN new THEN new[e] ELSE old[e]]
\* .mode('overwrite'): what the directory held is deleted
Overwrite(old, new) == new

\* (mutant) COUNT(distinct visitor_id) in place of COUNT(1)
SubjectCountRowsDistinct(B) ==
  LET G == {[experiment_id |-> r.experiment_id, variation_id |-> r.variation_id]
              : r \in DOMAIN B}
  IN  {[experiment_id |-> g.experiment_id, variation_id |-> g.variation_id,
        subject_count |->
          Cardinality({r.visitor_id : r \in {x \in DOMAIN B : /\ x.experiment_id = g.experiment_id
                                                              /\ x.variation_id = g.variation_id}})]
       : g \in G}
\* GROUP BY experiment_id, variation_id with COUNT(1) as subject_count
SubjectCountRows(B) ==
  LET G == {[experiment_id |-> r.experiment_id, variation_id |-> r.variation_id]
              : r \in DOMAIN B}
  IN  {[experiment_id |-> g.experiment_id, variation_id |-> g.variation_id,
        subject_count |->
          BagCardinality([r \in {x \in DOMAIN B : /\ x.experiment_id = g.experiment_id
                                                  /\ x.variation_id = g.variation_id}
                          |-> B[r]])]
       : g \in G}

\* ORDER BY experiment_id, variation_id
SubjectCountSorted(s) ==
  \A i, j \in 1..Len(s) :
    i < j => \/ Rank(s[i].experiment_id) < Rank(s[j].experiment_id)
             \/ /\ s[i].experiment_id = s[j].experiment_id
                /\ Rank(s[i].variation_id) <= Rank(s[j].variation_id)

\* --------------------------------------------------- notebook 2: the queries
\* Each query is evaluated against the temp views of the Spark session,
\* views = [decisions |-> bag of decision rows, events |-> bag of event rows],
\* with the analysis window lo..hi interpolated into its text.

\* MIN(timestamp)
Min(S) == CHOOSE x \in S : \A y \in S : x <= y

\* Every sequence that lists each row of the set R once.
Listings(R) ==
  {s \in [1..Cardinality(R) -> R] : \A i, j \in 1..Cardinality(R) : s[i] = s[j] => i = j}

\* FROM events LATERAL VIEW explode(experiments) t AS exp
\*   WHERE timestamp between '{start}' AND '{end}'
\* One row per event row and position of its `experiments` array.
ExplodedEvents(views, lo, hi) ==
  LET E == WindowFilter(views.events, lo, hi)
  IN  [x \in UNION {{<<r, k>> : k \in 1..Len(r.experiments)} : r \in DOMAIN E} |-> E[x[1]]]

\* (mutant) the decisions are not restricted to the analysis window
CountedDecisionsAnyTime(views, lo, hi) ==
  LET D == views.decisions
  IN  [r \in {x \in DOMAIN D : x.is_holdback = FALSE} |-> D[r]]
\* (mutant) holdback decisions are not excluded
CountedDecisionsWithHoldbacks(views, lo, hi) == WindowFilter(views.decisions, lo, hi)
\* FROM decisions WHERE timestamp between '{start}' AND '{end}' AND is_holdback = false
CountedDecisions(views, lo, hi) ==
  LET D == WindowFilter(views.decisions, lo, hi)
  IN  [r \in {x \in DOMAIN D : x.is_holdback = FALSE} |-> D[r]]

\* Unique visitors (Optimizely Web): the rows before ORDER BY.
UniqueVisitorsWebRows(views, lo, hi) ==
  LET X == ExplodedEvents(views, lo, hi)
      D == CountedDecisions(views, lo, hi)
      \* SELECT ... FROM events ... UNION SELECT ... FROM decisions ...
      U == {[experiment_id |-> x[1].experiments[x[2]].experiment_id,
             variation_id |-> x[1].experiments[x[2]].variation_id,
             visitor_id |-> x[1].visitor_id] : x \in DOMAIN X}
           \cup
           {[experiment_id |-> r.experiment_id, variation_id |-> r.variation_id,
             visitor_id |-> r.visitor_id] : r \in DOMAIN D}
      \* GROUP BY experiment_id, variation_id
      G == {[experiment_id |-> u.experiment_id, variation_id |-> u.variation_id] : u \in U}
  IN  {[experiment_id |-> g.experiment_id, variation_id |-> g.variation_id,
        \* COUNT (distinct visitor_id)
        unique_visitors |->
          Cardinality({u.visitor_id : u \in {w \in U : w.experiment_id = g.experiment_id /\
                                                      w.variation_id = g.variation_id}})]
       : g \in G}

\* ORDER BY experiment_id ASC, variation_id ASC
UniqueVisitorsWebSorted(s) ==
  \A i, j \in 1..Len(s) :
    i < j => \/ Rank(s[i].experiment_id) < Rank(s[j].experiment_id)
             \/ /\ s[i].experiment_id = s[j].experiment_id
                /\ Rank(s[i].variation_id) <= Rank(s[j].variation_id)

\* (mutant) COUNT(visitor_id) in place of COUNT(distinct visitor_id)
UniqueVisitorsFSRowsCountAll(views, lo, hi) ==
  LET D == CountedDecisions(views, lo, hi)
      G == {[experiment_id |-> r.experiment_id, variation_id |-> r.variation_id] : r \in DOMAIN D}
  IN  {[experiment_id |-> g.experiment_id, variation_id |-> g.variation_id,
        unique_visitors |->
          BagCardinality([r \in {w \in DOMAIN D : w.experiment_id = g.experiment_id /\
                                                   w.variation_id = g.variation_id} |-> D[r]])]
       : g \in G}
\* Unique visitors (Full Stack): the query has no ORDER BY, its result is a set of rows.
UniqueVisitorsFSRows(views, lo, hi) ==
  LET D == CountedDecisions(views, lo, hi)
      G == {[experiment_id |-> r.experiment_id, variation_id |-> r.variation_id] : r \in DOMAIN D}
  IN  {[experiment_id |-> g.experiment_id, variation_id |-> g.variation_id,
        \* COUNT(distinct visitor_id)
        unique_visitors |->
          Cardinality({r.visitor_id : r \in {w \in DOMAIN D : w.experiment_id = g.experiment_id /\
                                                             w.variation_id = g.variation_id}})]
       : g \in G}

\* (mutant) only events of visitors with a counted decision for the experiment are counted
ConversionCountWebRowsNeedingDecision(views, lo, hi) ==
  LET X == ExplodedEvents(views, lo, hi)
      D == CountedDecisions(views, lo, hi)
      Key(x) == [experiment_id |-> x[1].experiments[x[2]].experiment_id,
                 variation_id |-> x[1].experiments[x[2]].variation_id,
                 event_name |-> x[1].event_name]
      Y == {x \in DOMAIN X : \E r \in DOMAIN D : /\ r.visitor_id = x[1].visitor_id
                                                 /\ r.experiment_id = Key(x).experiment_id}
      G == {Key(x) : x \in Y}
  IN  {[experiment_id |-> g.experiment_id, variation_id |-> g.variation_id,
        event_name |-> g.event_name,
        conversion_count |-> BagCardinality([x \in {y \in Y : Key(y) = g} |-> X[x]])]
       : g \in G}
\* (mutant) COUNT(distinct visitor_id) in place of COUNT(1)
ConversionCountWebRowsDistinctVisitors(views, lo, hi) ==
  LET X == ExplodedEvents(views, lo, hi)
      Key(x) == [experiment_id |-> x[1].experiments[x[2]].experiment_id,
                 variation_id |-> x[1].experiments[x[2]].variation_id,
                 event_name |-> x[1].event_name]
      G == {Key(x) : x \in DOMAIN X}
  IN  {[experiment_id |-> g.experiment_id, variation_id |-> g.variation_id,
        event_name |-> g.event_name,
        conversion_count |-> Cardinality({y[1].visitor_id : y \in {z \in DOMAIN X : Key(z) = g}})]
       : g \in G}
\* Conversion count (Optimizely Web): the rows before ORDER BY.
ConversionCountWebRows(views, lo, hi) ==
  LET X == ExplodedEvents(views, lo, hi)
      Key(x) == [experiment_id |-> x[1].experiments[x[2]].experiment_id,
                 variation_id |-> x[1].experiments[x[2]].variation_id,
                 event_name |-> x[1].event_name]
      \* GROUP BY experiment_id, variation_id, event_name
      G == {Key(x) : x \in DOMAIN X}
  IN  {[experiment_id |-> g.experiment_id, variation_id |-> g.variation_id,
        event_name |-> g.event_name,
        \* COUNT(1)
        conversion_count |-> BagCardinality([x \in {y \in DOMAIN X : Key(y) = g} |-> X[x]])]
       : g \in G}

\* ORDER BY experiment_id DESC, variation_id DESC, event_name ASC
ConversionCountWebSorted(s) ==
  \A i, j \in 1..Len(s) :
    i < j => \/ Rank(s[i].experiment_id) > Rank(s[j].experiment_id)
             \/ /\ s[i].experiment_id = s[j].experiment_id
                /\ \/ Rank(s[i].variation_id) > Rank(s[j].variation_id)
                   \/ /\ s[i].variation_id = s[j].variation_id
                      /\ Rank(s[i].event_name) <= Rank(s[j].event_name)

\* (mutant) no GROUP BY and no MIN: one row of d per counted decision
DecisionTimestampsUngrouped(views, lo, hi) ==
  LET D == CountedDecisions(views, lo, hi)
  IN  {[experiment_id |-> r.experiment_id, variation_id |-> r.variation_id,
        visitor_id |-> r.visitor_id, decision_timestamp |-> r.timestamp] : r \in DOMAIN D}
\* The subquery d: per (experiment_id, variation_id, visitor_id),
\* MIN(timestamp) as decision_timestamp over the counted decisions.
DecisionTimestamps(views, lo, hi) ==
  LET D == CountedDecisions(views, lo, hi)
      G == {[experiment_id |-> r.experiment_id, variation_id |-> r.variation_id,
             visitor_id |-> r.visitor_id] : r \in DOMAIN D}
  IN  {[experiment_id |-> g.experiment_id, variation_id |-> g.variation_id,
        visitor_id |-> g.visitor_id,
        decision_timestamp |->
          Min({r.timestamp : r \in {w \in DOMAIN D : /\ w.experiment_id = g.experiment_id
                                                    /\ w.variation_id = g.variation_id
                                                    /\ w.visitor_id = g.visitor_id}})]
       : g \in G}

\* (mutant) the condition e.timestamp >= d.decision_timestamp is missing
AttributedEventsAnyOrder(views, lo, hi) ==
  LET E == views.events
      J == {p \in (DOMAIN E) \X DecisionTimestamps(views, lo, hi) :
              /\ p[1].visitor_id = p[2].visitor_id
              /\ Between(p[1].timestamp, lo, hi)}
  IN  [p \in J |-> E[p[1]]]
\* events e INNER JOIN (...) d ON e.visitor_id = d.visitor_id
\*   WHERE e.timestamp between '{start}' AND '{end}' AND e.timestamp >= d.decision_timestamp
\* One row per matching pair of an event row and a row of d.
AttributedEvents(views, lo, hi) ==
  LET E == views.events
      J == {p \in (DOMAIN E) \X DecisionTimestamps(views, lo, hi) :
              /\ p[1].visitor_id = p[2].visitor_id
              /\ Between(p[1].timestamp, lo, hi)
              /\ p[1].timestamp >= p[2].decision_timestamp}
  IN  [p \in J |-> E[p[1]]]

\* Conversion count (Optimizely Full Stack): the rows before ORDER BY.
ConversionCountFSRows(views, lo, hi) ==
  LET J == AttributedEvents(views, lo, hi)
      Key(p) == [experiment_id |-> p[2].experiment_id, variation_id |-> p[2].variation_id,
                 event_name |-> p[1].event_name]
      \* GROUP BY experiment_id, variation_id, event_name
      G == {Key(p) : p \in DOMAIN J}
  IN  {[experiment_id |-> g.experiment_id, variation_id |-> g.variation_id,
        event_name |-> g.event_name,
        \* COUNT (1)
        conversion_count |-> BagCardinality([p \in {q \in DOMAIN J : Key(q) = g} |-> J[p]])]
       : g \in G}

\* ORDER BY experiment_id DESC, variation_id ASC
ConversionCountFSSorted(s) ==
  \A i, j \in 1..Len(s) :
    i < j => \/ Rank(s[i].experiment_id) > Rank(s[j].experiment_id)
             \/ /\ s[i].experiment_id = s[j].experiment_id
                /\ Rank(s[i].variation_id) <= Rank(s[j].variation_id)

\* The temp views of the queries notebook's session.
session == [decisions |-> decisions, events |-> events]

\* ------------------------------------------------------------------ actions

\* cell "Analysis window"
SetDecisionsWindow ==
  /\ pc = "decisions_window"
  /\ \E s \in Times, e \in Times :
       /\ decisions_start' = s
       /\ decisions_end' = e
  /\ pc' = "load_decisions"
  /\ UNCHANGED <<loaded_decisions, experiment_subjects, outputs_vars, tables_vars, results_vars, workers_vars>>

\* cell "Load decision data": the directory holds one of `tables`
LoadDecisions(tables) ==
  /\ pc = "load_decisions"
  /\ loaded_decisions' \in tables
  /\ pc' = "experiment_subjects"
  /\ UNCHANGED <<decisions_start, decisions_end, experiment_subjects, outputs_vars,
                 tables_vars, results_vars, workers_vars>>

\* cell "Compute experiment subjects"
ComputeExperimentSubjects ==
  /\ pc = "experiment_subjects"
  /\ experiment_subjects' \in Orderings(SubjectRows(decisions_view))
  /\ pc' = "write_subjects"
  /\ UNCHANGED <<decisions_start, decisions_end, loaded_decisions, outputs_vars,
                 tables_vars, results_vars, workers_vars>>

\* cell "Compute experiment subjects", executed again: the view is evaluated anew
\* over the same decisions view.
RerunExperimentSubjects ==
  /\ pc = "write_subjects"
  /\ experiment_subjects' \in Orderings(SubjectRows(decisions_view))
  /\ UNCHANGED <<pc, decisions_start, decisions_end, loaded_decisions, outputs_vars,
                 tables_vars, results_vars, workers_vars>>

\* cell "Writing our subjects dataset to disk"
WriteSubjects ==
  /\ pc = "write_subjects"
  /\ subjects_output_dir' =
       Overwrite(subjects_output_dir, PartitionedBy(SubjectRows(decisions_view)))
  /\ overwritten' = DOMAIN subjects_output_dir
  /\ pc' = "subject_count"
  /\ UNCHANGED <<decisions_start, decisions_end, loaded_decisions, experiment_subjects,
                 subject_count, tables_vars, results_vars, workers_vars>>

\* cell "Analyzing our subject data"
CountSubjects ==
  /\ pc = "subject_count"
  /\ subject_count' \in
       {s \in Listings(SubjectCountRows(SubjectRows(decisions_view))) : SubjectCountSorted(s)}
  /\ pc' = "finished"
  /\ UNCHANGED <<decisions_start, decisions_end, loaded_decisions, experiment_subjects,
                 subjects_output_dir, overwritten, tables_vars, results_vars, workers_vars>>

\* The kernel is restarted and the notebook is executed again: the views and results of
\* the session are gone, the output directory stays.
RunAgain ==
  /\ pc = "finished"
  /\ pc' = "decisions_window"
  /\ decisions_start' = 0
  /\ decisions_end' = MaxTime
  /\ loaded_decisions' = EmptyBag
  /\ experiment_subjects' = <<>>
  /\ subject_count' = <<>>
  /\ UNCHANGED <<subjects_output_dir, overwritten, tables_vars, results_vars, workers_vars>>

\* cell read_data(decisions_dir, "decisions"): the directory holds one of `tables`
ReadDecisions(tables) ==
  /\ pc = "read_decisions"
  /\ decisions' \in tables
  /\ pc' = "read_events"
  /\ UNCHANGED <<events, start, end, subjects_vars, results_vars, workers_vars>>

\* cell read_data(events_dir, "events"): the directory holds one of `tables`
ReadEvents(tables) ==
  /\ pc = "read_events"
  /\ events' \in tables
  /\ pc' = "window"
  /\ UNCHANGED <<decisions, start, end, subjects_vars, results_vars, workers_vars>>

\* cell "The analysis window for your queries"
SetWindow(next_cell) ==
  /\ pc = "window"
  /\ \E s \in Times, e \in Times :
       /\ start' = s
       /\ end' = e
  /\ pc' = next_cell
  /\ UNCHANGED <<decisions, events, subjects_vars, results_vars, workers_vars>>

\* The queries notebook is opened after the experiment-subjects notebook has finished.
OpenQueriesNotebook ==
  /\ pc = "finished"
  /\ pc' = "read_decisions"
  /\ UNCHANGED <<subjects_vars, tables_vars, results_vars, workers_vars>>

\* cell "The analysis window for your queries", set to the window of the
\* experiment-subjects notebook
SetSameWindow(next_cell) ==
  /\ pc = "window"
  /\ start' = decisions_start
  /\ end' = decisions_end
  /\ pc' = next_cell
  /\ UNCHANGED <<decisions, events, subjects_vars, results_vars, workers_vars>>

\* cell "Count the unique visitors from all events (Optimizely Web)"
QueryUniqueVisitorsWeb ==
  /\ pc = "unique_visitors_web"
  /\ unique_visitors_web' \in
       {s \in Listings(UniqueVisitorsWebRows(session, start, end)) : UniqueVisitorsWebSorted(s)}
  /\ pc' = "conversion_count_web"
  /\ UNCHANGED <<tables_vars, subjects_vars, workers_vars,
                 unique_visitors_fs, conversion_count_web, conversion_count_fs>>

\* cell "Count the unique visitors from decisions (Optimizely Full Stack)"
QueryUniqueVisitorsFS ==
  /\ pc = "unique_visitors_fs"
  /\ unique_visitors_fs' = UniqueVisitorsFSRows(session, start, end)
  /\ pc' = "conversion_count_fs"
  /\ UNCHANGED <<tables_vars, subjects_vars, workers_vars,
                 unique_visitors_web, conversion_count_web, conversion_count_fs>>

\* cell "Count the unique conversions of a particular event attributed to an experiment"
QueryConversionCountWeb ==
  /\ pc = "conversion_count_web"
  /\ conversion_count_web' \in
       {s \in Listings(ConversionCountWebRows(session, start, end)) : ConversionCountWebSorted(s)}
  /\ pc' = "done"
  /\ UNCHANGED <<tables_vars, subjects_vars, workers_vars,
                 unique_visitors_web, unique_visitors_fs, conversion_count_fs>>

\* cell "Counting conversions in an Optimizely Full Stack experiment"
QueryConversionCountFS ==
  /\ pc = "conversion_count_fs"
  /\ conversion_count_fs' \in
       {s \in Listings(ConversionCountFSRows(session, start, end)) : ConversionCountFSSorted(s)}
  /\ pc' = "done"
  /\ UNCHANGED <<tables_vars, subjects_vars, workers_vars,
                 unique_visitors_web, unique_visitors_fs, conversion_count_web>>

\* ------------------------------------------------- group-wise evaluation
\* The engine may evaluate the PARTITION BY / GROUP BY of a query one group at a
\* time: a worker takes a group, evaluates the query over the rows of that group,
\* and the results of the groups are merged as they arrive.

\* The cells whose query is evaluated this way.
Jobs ==
  {"experiment_subjects", "unique_visitors_web", "unique_visitors_fs",
   "conversion_count_web", "conversion_count_fs"}

\* The rows of the session's views that belong to one (experiment, variation, visitor).
VisitorGroupViews(k) ==
  [decisions |-> [r \in {x \in DOMAIN decisions : /\ x.experiment_id = k.experiment_id
                                                 /\ x.variation_id = k.variation_id
                                                 /\ x.visitor_id = k.visitor_id}
                  |-> decisions[r]],
   events |-> [r \in {x \in DOMAIN events : x.visitor_id = k.visitor_id} |-> events[r]]]

\* The rows of the session's views that belong to one (experiment, variation, event name).
EventGroupViews(k) ==
  [decisions |-> decisions,
   events |-> [r \in {x \in DOMAIN events : x.event_name = k.event_name} |-> events[r]]]

\* The rows of the decisions view that belong to one (experiment, visitor) partition.
PartitionRows(k) ==
  [r \in {x \in DOMAIN decisions_view : /\ x.experiment_id = k.experiment_id
                                       /\ x.visitor_id = k.visitor_id}
   |-> decisions_view[r]]

\* The groups of a query: the keys of its PARTITION BY, or of its GROUP BY (for a
\* COUNT(distinct visitor_id), together with visitor_id).
Groups(j) ==
  CASE j = "experiment_subjects" ->
         {[experiment_id |-> r.experiment_id, visitor_id |-> r.visitor_id]
            : r \in DOMAIN decisions_view}
    [] j \in {"unique_visitors_fs", "conversion_count_fs"} ->
         {[experiment_id |-> r.experiment_id, variation_id |-> r.variation_id,
           visitor_id |-> r.visitor_id] : r \in DOMAIN CountedDecisions(session, start, end)}
    [] j = "unique_visitors_web" ->
         {[experiment_id |-> x[1].experiments[x[2]].experiment_id,
           variation_id |-> x[1].experiments[x[2]].variation_id,
           visitor_id |-> x[1].visitor_id] : x \in DOMAIN ExplodedEvents(session, start, end)}
         \cup
         {[experiment_id |-> r.experiment_id, variation_id |-> r.variation_id,
           visitor_id |-> r.visitor_id] : r \in DOMAIN CountedDecisions(session, start, end)}
    [] j = "conversion_count_web" ->
         {[experiment_id |-> x[1].experiments[x[2]].experiment_id,
           variation_id |-> x[1].experiments[x[2]].variation_id,
           event_name |-> x[1].event_name] : x \in DOMAIN ExplodedEvents(session, start, end)}

\* The rows of a unique-visitor result as a bag: (experiment, variation) as often as counted.
VisitorCounts(R) ==
  [g \in {[experiment_id |-> x.experiment_id, variation_id |-> x.variation_id] : x \in R} |->
     (CHOOSE x \in R : x.experiment_id = g.experiment_id /\ x.variation_id = g.variation_id)
       .unique_visitors]

\* The rows of a conversion-count result as a bag.
ConversionCounts(R) ==
  [g \in {[experiment_id |-> x.experiment_id, variation_id |-> x.variation_id,
           event_name |-> x.event_name] : x \in R} |->
     (CHOOSE x \in R : /\ x.experiment_id = g.experiment_id
                       /\ x.variation_id = g.variation_id
                       /\ x.event_name = g.event_name).conversion_count]

\* The rows of a result that carry the experiment and variation of the group k.
OfGroup(R, k) ==
  {x \in R : x.experiment_id = k.experiment_id /\ x.variation_id = k.variation_id}

\* What a worker returns for the group k of the query j: the query over the rows of k.
Partial(j, k) ==
  CASE j = "experiment_subjects" -> SubjectRows(PartitionRows(k))
    [] j = "unique_visitors_fs" ->
         VisitorCounts(OfGroup(UniqueVisitorsFSRows(VisitorGroupViews(k), start, end), k))
    [] j = "conversion_count_fs" ->
         ConversionCounts(OfGroup(ConversionCountFSRows(VisitorGroupViews(k), start, end), k))
    [] j = "unique_visitors_web" ->
         VisitorCounts(OfGroup(UniqueVisitorsWebRows(VisitorGroupViews(k), start, end), k))
    [] j = "conversion_count_web" ->
         ConversionCounts(OfGroup(ConversionCountWebRows(EventGroupViews(k), start, end), k))

\* The rows of a unique-visitor result, from the merged counts.
VisitorRows(B) ==
  {[experiment_id |-> g.experiment_id, variation_id |-> g.variation_id,
    unique_visitors |-> B[g]] : g \in DOMAIN B}

\* The rows of a conversion-count result, from the merged counts.
ConversionRows(B) ==
  {[experiment_id |-> g.experiment_id, variation_id |-> g.variation_id,
    event_name |-> g.event_name, conversion_count |-> B[g]] : g \in DOMAIN B}

\* The engine splits the query of the cell j into its groups.
Dispatch(j) ==
  /\ pc = j
  /\ job' = j
  /\ tasks' = Groups(j)
  /\ partials' = {}
  /\ merged' = EmptyBag
  /\ pc' = "workers"
  /\ UNCHANGED <<subjects_vars, tables_vars, results_vars>>

\* A worker takes a group and evaluates it.
Work ==
  /\ pc = "workers"
  /\ \E k \in tasks :
       /\ tasks' = tasks \ {k}
       /\ partials' = partials \cup {[key |-> k, rows |-> Partial(job, k)]}
  /\ UNCHANGED <<pc, job, merged, subjects_vars, tables_vars, results_vars>>

\* The result of a group is merged into the result of the query.
Merge ==
  /\ pc = "workers"
  /\ \E p \in partials :
       /\ merged' = merged (+) p.rows
       /\ partials' = partials \ {p}
  /\ UNCHANGED <<pc, job, tasks, subjects_vars, tables_vars, results_vars>>

\* All groups are merged: the cell returns the result, ordered as the query says.
Collect ==
  /\ pc = "workers"
  /\ tasks = {}
  /\ partials = {}
  /\ \/ /\ job = "experiment_subjects"
        /\ experiment_subjects' \in Orderings(merged)
        /\ UNCHANGED <<decisions_start, decisions_end, loaded_decisions, outputs_vars,
                       results_vars>>
     \/ /\ job = "unique_visitors_web"
        /\ unique_visitors_web' \in
             {s \in Listings(VisitorRows(merged)) : UniqueVisitorsWebSorted(s)}
        /\ UNCHANGED <<subjects_vars, unique_visitors_fs, conversion_count_web,
                       conversion_count_fs>>
     \/ /\ job = "unique_visitors_fs"
        /\ unique_visitors_fs' = VisitorRows(merged)
        /\ UNCHANGED <<subjects_vars, unique_visitors_web, conversion_count_web,
                       conversion_count_fs>>
     \/ /\ job = "conversion_count_web"
        /\ conversion_count_web' \in
             {s \in Listings(ConversionRows(merged)) : ConversionCountWebSorted(s)}
        /\ UNCHANGED <<subjects_vars, unique_visitors_web, unique_visitors_fs,
                       conversion_count_fs>>
     \/ /\ job = "conversion_count_fs"
        /\ conversion_count_fs' \in
             {s \in Listings(ConversionRows(merged)) : ConversionCountFSSorted(s)}
        /\ UNCHANGED <<subjects_vars, unique_visitors_web, unique_visitors_fs,
                       conversion_count_web>>
  /\ pc' = "done"
  /\ UNCHANGED <<tables_vars, workers_vars>>

\* Nothing is loaded and no cell has run.
Blank ==
  /\ decisions_start = 0
  /\ decisions_end = MaxTime
  /\ loaded_decisions = EmptyBag
  /\ experiment_subjects = <<>>
  /\ subjects_output_dir = <<>>
  /\ overwritten = {}
  /\ subject_count = <<>>
  /\ decisions = EmptyBag
  /\ events = EmptyBag
  /\ start = 0
  /\ end = MaxTime
  /\ unique_visitors_web = <<>>
  /\ unique_visitors_fs = {}
  /\ conversion_count_web = <<>>
  /\ conversion_count_fs = <<>>
  /\ job = "none"
  /\ tasks = {}
  /\ partials = {}
  /\ merged = EmptyBag

\* The experiment-subjects notebook, run from its first cell.
Init == pc = "decisions_window" /\ Blank

Next == SetDecisionsWindow \/ LoadDecisions(DecisionTables) \/ ComputeExperimentSubjects

Spec == Init /\ [][Next]_vars

\* The experiment-subjects notebook with its last cell executed repeatedly.
NextRerun == Next \/ RerunExperimentSubjects

SpecRerun == Init /\ [][NextRerun]_vars

\* Either notebook, one of its queries evaluated group by group.
InitParallel == pc \in {"decisions_window", "read_decisions"} /\ Blank

NextParallel ==
  \/ SetDecisionsWindow
  \/ LoadDecisions(DecisionTables)
  \/ ReadDecisions(WorkerDecisionTables)
  \/ ReadEvents(WorkerEventTables)
  \/ \E j \in Jobs \ {"experiment_subjects"} : SetWindow(j)
  \/ \E j \in Jobs : Dispatch(j)
  \/ Work
  \/ Merge
  \/ Collect

SpecParallel == InitParallel /\ [][NextParallel]_vars

\* The experiment-subjects notebook with its output and reporting cells.
NextReport == Next \/ WriteSubjects \/ CountSubjects

SpecReport == Init /\ [][NextReport]_vars

\* The experiment-subjects notebook executed again and again, to its last cell.
NextRuns ==
  \/ SetDecisionsWindow
  \/ LoadDecisions(RunDecisionTables)
  \/ ComputeExperimentSubjects
  \/ WriteSubjects
  \/ CountSubjects
  \/ RunAgain

SpecRuns == Init /\ [][NextRuns]_vars

\* Both notebooks, one after the other, over the same decisions directory and with the
\* same analysis window; the queries notebook runs its Full Stack queries.
NextBoth ==
  \/ NextReport
  \/ OpenQueriesNotebook
  \/ ReadDecisions({loaded_decisions})
  \/ ReadEvents(JoinEventTables)
  \/ SetSameWindow("unique_visitors_fs")
  \/ QueryUniqueVisitorsFS
  \/ QueryConversionCountFS

SpecBoth == Init /\ [][NextBoth]_vars

\* The queries notebook, run from its first cell.
InitQueries == pc = "read_decisions" /\ Blank

\* The cells of the Optimizely Web policy.
NextWeb ==
  \/ ReadDecisions(DecisionTables)
  \/ ReadEvents(JoinEventTables)
  \/ SetWindow("unique_visitors_web")
  \/ QueryUniqueVisitorsWeb
  \/ QueryConversionCountWeb

SpecWeb == InitQueries /\ [][NextWeb]_vars

\* The cells of the Optimizely Full Stack policy.
NextFullStack ==
  \/ ReadDecisions(DecisionTables)
  \/ ReadEvents(JoinEventTables)
  \/ SetWindow("unique_visitors_fs")
  \/ QueryUniqueVisitorsFS
  \/ QueryConversionCountFS

SpecFullStack == InitQueries /\ [][NextFullStack]_vars

\* The Web conversion count over a larger events directory; the decisions directory is empty.
NextWebConversions ==
  \/ ReadDecisions({EmptyBag})
  \/ ReadEvents(EventTables)
  \/ SetWindow("conversion_count_web")
  \/ QueryConversionCountWeb

SpecWebConversions == InitQueries /\ [][NextWebConversions]_vars

\* ======================================================================
\* Properties of the experiment-subjects notebook (specification Spec)
\* ======================================================================

\* The decisions of the pair (e, s) whose timestamp lies in the analysis window.
InWindowDecisionsOf(e, s) ==
  {r \in DOMAIN loaded_decisions :
     /\ r.experiment_id = e
     /\ r.visitor_id = s
     /\ decisions_start <= r.timestamp
     /\ r.timestamp <= decisions_end}

\* The least timestamp of a non-empty set of rows.
EarliestOf(R) == CHOOSE t \in {r.timestamp : r \in R} : \A r \in R : t <= r.timestamp

\* The number of copies of the row q in the sequence s.
Occurrences(s, q) == Cardinality({i \in 1..Len(s) : s[i] = q})

\* The cell "Compute experiment subjects" has run.
SubjectsComputed == pc = "write_subjects"

\* C1: every row of the experiment-subjects table belongs to a pair that has an
\* in-window decision, carries the minimum in-window timestamp of its pair, and the
\* variation of an in-window decision of the pair that has that minimum timestamp.
C1_FirstDecision ==
  SubjectsComputed =>
    \A i \in 1..Len(experiment_subjects) :
      LET row == experiment_subjects[i]
          P == InWindowDecisionsOf(row.experiment_id, row.visitor_id)
      IN  /\ P # {}
          /\ row.timestamp = EarliestOf(P)
          /\ \E r \in P : r.timestamp = row.timestamp /\ r.variation_id = row.variation_id

\* A pair with an earlier decision outside the window or a later decision inside it got its row.
C1_Witness ==
  /\ SubjectsComputed
  /\ Len(experiment_subjects) = 1
  /\ \E r \in DOMAIN loaded_decisions :
       /\ r.experiment_id = experiment_subjects[1].experiment_id
       /\ r.visitor_id = experiment_subjects[1].visitor_id
       /\ r.timestamp > experiment_subjects[1].timestamp
       /\ r.timestamp <= decisions_end
       /\ r.variation_id # experiment_subjects[1].variation_id

\* C2: the table holds exactly one row for every pair that has an in-window decision.
C2_ExactlyOneRowPerPair ==
  SubjectsComputed =>
    \A e \in Experiments, s \in Subjects :
      InWindowDecisionsOf(e, s) # {} =>
        Cardinality({i \in 1..Len(experiment_subjects) :
                       /\ experiment_subjects[i].experiment_id = e
                       /\ experiment_subjects[i].visitor_id = s}) = 1

\* The row values that occur: the projections of the loaded decisions onto the columns
\* of the experiment-subjects table, and the rows of that table.
SubjectRowValues ==
  {SubjectColumns(r) : r \in DOMAIN loaded_decisions} \cup
  {experiment_subjects[i] : i \in 1..Len(experiment_subjects)}

\* The number of in-window decisions (copies counted) that show the columns of q.
TiedCopies(q) ==
  LET R == {r \in InWindowDecisionsOf(q.experiment_id, q.visitor_id) :
              r.variation_id = q.variation_id /\ r.timestamp = q.timestamp}
  IN  BagCardinality([r \in R |-> loaded_decisions[r]])

\* C3: every in-window decision that has the minimum timestamp of its partition gives
\* one output row (ties included, whatever their variation), and no decision later
\* than the minimum of its partition gives a row.
C3_TiesRetained ==
  SubjectsComputed =>
    \A q \in SubjectRowValues :
      LET P == InWindowDecisionsOf(q.experiment_id, q.visitor_id)
      IN  Occurrences(experiment_subjects, q) =
            IF P # {} /\ q.timestamp = EarliestOf(P) THEN TiedCopies(q) ELSE 0

\* Two decisions of one partition, of different variations, tie for first: both are output.
C3_Witness ==
  /\ SubjectsComputed
  /\ Len(experiment_subjects) = 2
  /\ experiment_subjects[1].experiment_id = experiment_subjects[2].experiment_id
  /\ experiment_subjects[1].visitor_id = experiment_subjects[2].visitor_id
  /\ experiment_subjects[1].timestamp = experiment_subjects[2].timestamp
  /\ experiment_subjects[1].variation_id # experiment_subjects[2].variation_id

\* C4: the window filter keeps exactly the rows with start <= timestamp <= end, each
\* as often as the input holds it, and nothing when start > end.
C4_WindowFilter ==
  pc \in {"experiment_subjects", "write_subjects"} =>
    /\ \A r \in DOMAIN loaded_decisions \cup DOMAIN decisions_view :
         CopiesIn(r, decisions_view) =
           IF decisions_start <= r.timestamp /\ r.timestamp <= decisions_end
             THEN CopiesIn(r, loaded_decisions) ELSE 0
    /\ decisions_view \sqsubseteq loaded_decisions
    /\ (decisions_start > decisions_end => decisions_view = EmptyBag)

\* A row on the upper bound is kept while a row beyond the bounds is dropped.
C4_Witness ==
  /\ pc = "experiment_subjects"
  /\ decisions_start < decisions_end
  /\ \E r \in DOMAIN decisions_view : r.timestamp = decisions_end
  /\ \E r \in DOMAIN loaded_decisions : r.timestamp < decisions_start

\* C11: executing the experiment-subjects query again over the same decisions view
\* returns the same sequence of rows as before, row order included.
C11_SameSequenceOnRerun ==
  [][(pc = "write_subjects" /\ pc' = "write_subjects") =>
       experiment_subjects' = experiment_subjects]_vars

\* The rows the run's experiment-subjects table holds for the experiment e, in the
\* state after the step.
RowsOfExperiment(e) ==
  {i \in 1..Len(experiment_subjects') : experiment_subjects'[i].experiment_id = e}

SubjectsCounted == pc = "finished"

\* The rows of the experiment-subjects table that carry the pair (e, v).
SubjectsOf(e, v) ==
  {i \in 1..Len(experiment_subjects) :
     experiment_subjects[i].experiment_id = e /\ experiment_subjects[i].variation_id = v}

\* The rows of the subject_count result that carry the pair (e, v).
CountRowsOf(e, v) ==
  {i \in 1..Len(subject_count) :
     subject_count[i].experiment_id = e /\ subject_count[i].variation_id = v}

\* The sum of the counts of the first n rows of the subject_count result.
RECURSIVE CountsUpTo(_)
CountsUpTo(n) == IF n = 0 THEN 0 ELSE subject_count[n].subject_count + CountsUpTo(n - 1)

\* C15: the subject_count result has one row for every (experiment, variation) of the
\* experiment-subjects table, with the number of rows of the table that carry the
\* pair, and no row for any other pair; its rows are in ascending order of
\* (experiment, variation); its counts add up to the number of rows of the table.
C15_SubjectCount ==
  SubjectsCounted =>
    /\ \A e \in Experiments, v \in Variations :
         IF SubjectsOf(e, v) = {}
           THEN CountRowsOf(e, v) = {}
           ELSE /\ Cardinality(CountRowsOf(e, v)) = 1
                /\ \A i \in CountRowsOf(e, v) :
                     subject_count[i].subject_count = Cardinality(SubjectsOf(e, v))
    /\ \A i \in 1..Len(subject_count) :
         /\ subject_count[i].experiment_id \in Experiments
         /\ subject_count[i].variation_id \in Variations
    /\ \A i, j \in 1..Len(subject_count) :
         i < j =>
           \/ Rank(subject_count[i].experiment_id) < Rank(subject_count[j].experiment_id)
           \/ /\ subject_count[i].experiment_id = subject_count[j].experiment_id
              /\ Rank(subject_count[i].variation_id) < Rank(subject_count[j].variation_id)
    /\ CountsUpTo(Len(subject_count)) = Len(experiment_subjects)

\* The table has rows of two variations of one experiment: the result lists the two
\* pairs, vA before vB.
C15_Witness ==
  /\ SubjectsCounted
  /\ Len(subject_count) = 2
  /\ subject_count[1].experiment_id = subject_count[2].experiment_id
  /\ subject_count[1].variation_id = "vA"
  /\ subject_count[2].variation_id = "vB"

\* Two identical rows of the table, of one subject, are counted as two.
C15_WitnessTwoRows ==
  /\ SubjectsCounted
  /\ Len(subject_count) = 1
  /\ subject_count[1].subject_count = 2
  /\ experiment_subjects[1] = experiment_subjects[2]

\* C12: when the groups of a query were evaluated by workers in any interleaving
\* and merged in any order, the experiment-subjects rows and the Web and Full Stack
\* counts are those of the query evaluated at once over the whole views.
C12_GroupwiseSameAsSequential ==
  pc = "done" =>
    /\ job = "experiment_subjects" =>
         SeqToBag(experiment_subjects) = SubjectRows(decisions_view)
    /\ job = "unique_visitors_web" =>
         {unique_visitors_web[i] : i \in 1..Len(unique_visitors_web)} =
           UniqueVisitorsWebRows(session, start, end)
    /\ job = "unique_visitors_fs" =>
         unique_visitors_fs = UniqueVisitorsFSRows(session, start, end)
    /\ job = "conversion_count_web" =>
         {conversion_count_web[i] : i \in 1..Len(conversion_count_web)} =
           ConversionCountWebRows(session, start, end)
    /\ job = "conversion_count_fs" =>
         {conversion_count_fs[i] : i \in 1..Len(conversion_count_fs)} =
           ConversionCountFSRows(session, start, end)

\* Two visitors of one variation were counted by two workers and the counts merged.
C12_Witness ==
  /\ pc = "done"
  /\ job = "unique_visitors_fs"
  /\ \E x \in unique_visitors_fs : x.unique_visitors = 2

\* ======================================================================
\* Properties of the queries notebook
\* (specifications SpecFullStack, SpecWeb, SpecWebConversions)
\* ======================================================================

\* The timestamp t lies in the analysis window of the queries.
InWindow(t) == start <= t /\ t <= end

\* The sum of f[x] over the finite set S.
RECURSIVE Sum(_, _)
Sum(f, S) == IF S = {} THEN 0 ELSE LET x == CHOOSE y \in S : TRUE IN f[x] + Sum(f, S \ {x})

\* The rows of a query result that is a sequence.
RowsOf(s) == {s[i] : i \in 1..Len(s)}

\* The in-window, non-holdback decisions for the variation v of the experiment e.
QualifyingDecisions(e, v) ==
  {r \in DOMAIN decisions :
     /\ r.experiment_id = e
     /\ r.variation_id = v
     /\ r.is_holdback = FALSE
     /\ InWindow(r.timestamp)}

\* The in-window decisions of the subject s for the experiment e, of any variation,
\* holdbacks included.
ExposuresOf(s, e) ==
  {r \in DOMAIN decisions : r.visitor_id = s /\ r.experiment_id = e /\ InWindow(r.timestamp)}

\* The count a result reports for a key: 0 when it has no row for the key.
ReportedCount(R) == IF R = {} THEN 0 ELSE CHOOSE c \in R : TRUE

FSVisitors(e, v) ==
  ReportedCount({x.unique_visitors : x \in {y \in unique_visitors_fs :
                    y.experiment_id = e /\ y.variation_id = v}})

WebVisitors(e, v) ==
  ReportedCount({x.unique_visitors : x \in {y \in RowsOf(unique_visitors_web) :
                    y.experiment_id = e /\ y.variation_id = v}})

CountIn(rows, e, v, n) ==
  ReportedCount({x.conversion_count : x \in {y \in rows :
                    y.experiment_id = e /\ y.variation_id = v /\ y.event_name = n}})

FSConversions(e, v, n) == CountIn(RowsOf(conversion_count_fs), e, v, n)

WebConversions(e, v, n) == CountIn(RowsOf(conversion_count_web), e, v, n)

\* The cell of the Full Stack unique-visitor query has run.
FSVisitorsComputed == pc \in {"conversion_count_fs", "done"}

\* The last query cell of the policy has run.
ConversionsComputed == pc = "done"

\* C5: the Full Stack unique-visitor count of (experiment, variation) is the number of
\* distinct subjects among the in-window non-holdback decisions of the pair; it does
\* not exceed the number of those decision rows.
C5_FullStackVisitors ==
  FSVisitorsComputed =>
    \A e \in Experiments, v \in Variations :
      /\ Cardinality({y \in unique_visitors_fs : y.experiment_id = e /\ y.variation_id = v}) <= 1
      /\ FSVisitors(e, v) = Cardinality({r.visitor_id : r \in QualifyingDecisions(e, v)})
      /\ FSVisitors(e, v) <=
           BagCardinality([r \in QualifyingDecisions(e, v) |-> decisions[r]])

\* A subject with two qualifying decisions for a pair is counted once.
C5_Witness ==
  /\ FSVisitorsComputed
  /\ \E e \in Experiments, v \in Variations :
       /\ FSVisitors(e, v) = 1
       /\ BagCardinality([r \in QualifyingDecisions(e, v) |-> decisions[r]]) = 2

\* The event row r may be credited to the experiment e: it lies in the window, its
\* subject has an in-window decision for e, and it is not earlier than the earliest one.
Creditable(r, e) ==
  /\ InWindow(r.timestamp)
  /\ ExposuresOf(r.visitor_id, e) # {}
  /\ r.timestamp >= EarliestOf(ExposuresOf(r.visitor_id, e))

\* C6: the Full Stack conversion count of (experiment, variation, event) counts only
\* events of that name that lie in the window and are not earlier than the earliest
\* in-window decision of their subject for the experiment.
C6_NoEarlyConversion ==
  ConversionsComputed =>
    \A e \in Experiments, v \in Variations, n \in EventNames :
      FSConversions(e, v, n) <=
        BagCardinality([r \in {x \in DOMAIN events : x.event_name = n /\ Creditable(x, e)}
                        |-> events[r]])

\* An event is credited to one experiment and not to another one, in which its subject's
\* only in-window decision is later than the event.
C6_Witness ==
  /\ ConversionsComputed
  /\ \E r \in DOMAIN events, e1 \in Experiments, e2 \in Experiments, v \in Variations :
       /\ FSConversions(e1, v, r.event_name) = 1
       /\ ExposuresOf(r.visitor_id, e2) # {}
       /\ \A d \in ExposuresOf(r.visitor_id, e2) : d.is_holdback = FALSE /\ d.timestamp > r.timestamp
       /\ \A w \in Variations : FSConversions(e2, w, r.event_name) = 0

\* The events that are not events of the subject s.
EventsWithout(s) == [r \in {x \in DOMAIN events : x.visitor_id # s} |-> events[r]]

\* C7: a subject without an in-window decision for an experiment adds nothing to the
\* Full Stack conversion counts of that experiment: they are the counts the query
\* gives when the subject's events are left out.
C7_NoDecisionNoConversion ==
  ConversionsComputed =>
    \A s \in Subjects, e \in Experiments :
      ExposuresOf(s, e) = {} =>
        \A v \in Variations, n \in EventNames :
          FSConversions(e, v, n) =
            CountIn(ConversionCountFSRows([decisions |-> decisions, events |-> EventsWithout(s)],
                                          start, end),
                    e, v, n)

\* An in-window event lists an experiment for which its subject has only a decision
\* outside the window: it is not counted.
C7_Witness ==
  /\ ConversionsComputed
  /\ \E r \in DOMAIN events, d \in DOMAIN decisions :
       /\ InWindow(r.timestamp)
       /\ d.visitor_id = r.visitor_id
       /\ d.is_holdback = FALSE
       /\ d.timestamp < start
       /\ ExposuresOf(r.visitor_id, d.experiment_id) = {}
       /\ \E k \in 1..Len(r.experiments) : r.experiments[k].experiment_id = d.experiment_id
       /\ \A v \in Variations : FSConversions(d.experiment_id, v, r.event_name) = 0

\* C8: the Web conversion count does not depend on the decisions: it is the result of
\* the same query over the same events and window and an empty decisions table.
C8_WebIgnoresDecisions ==
  ConversionsComputed =>
    RowsOf(conversion_count_web) =
      ConversionCountWebRows([decisions |-> EmptyBag, events |-> events], start, end)

\* An in-window event is counted for an experiment while the decisions table holds
\* decisions, none of them an in-window decision of the event's subject for it.
C8_Witness ==
  /\ ConversionsComputed
  /\ decisions # EmptyBag
  /\ \E r \in DOMAIN events, e \in Experiments, v \in Variations :
       /\ WebConversions(e, v, r.event_name) = 1
       /\ ExposuresOf(r.visitor_id, e) = {}

\* The subjects of in-window events whose `experiments` list holds (e, v).
EventVisitors(e, v) ==
  {r.visitor_id : r \in {x \in DOMAIN events :
      /\ InWindow(x.timestamp)
      /\ \E k \in 1..Len(x.experiments) :
           x.experiments[k] = [experiment_id |-> e, variation_id |-> v]}}

\* The cell of the Web unique-visitor query has run.
WebVisitorsComputed == pc \in {"conversion_count_web", "done"}

\* C9: the Web unique-visitor count of (experiment, variation) is the number of distinct
\* subjects among the subjects of in-window events that list the pair and the subjects
\* of in-window non-holdback decisions for the pair.
C9_WebVisitors ==
  WebVisitorsComputed =>
    \A e \in Experiments, v \in Variations :
      /\ Cardinality({y \in RowsOf(unique_visitors_web) :
                        y.experiment_id = e /\ y.variation_id = v}) <= 1
      /\ WebVisitors(e, v) =
           Cardinality(EventVisitors(e, v) \cup {r.visitor_id : r \in QualifyingDecisions(e, v)})

\* A subject with an event and a decision for a pair is counted once, and another
\* subject whose only in-window record for the pair is a holdback decision is not counted.
C9_Witness ==
  /\ WebVisitorsComputed
  /\ \E e \in Experiments, v \in Variations :
       /\ WebVisitors(e, v) = 1
       /\ EventVisitors(e, v) \cap {r.visitor_id : r \in QualifyingDecisions(e, v)} # {}
       /\ \E d \in DOMAIN decisions :
            /\ d.experiment_id = e /\ d.variation_id = v
            /\ d.is_holdback /\ InWindow(d.timestamp)
            /\ d.visitor_id \notin EventVisitors(e, v)

\* The number of positions of the event row's `experiments` list that hold (e, v).
Positions(r, e, v) ==
  Cardinality({k \in 1..Len(r.experiments) :
                 r.experiments[k] = [experiment_id |-> e, variation_id |-> v]})

\* The in-window event rows.
InWindowEvents == {r \in DOMAIN events : InWindow(r.timestamp)}

\* C10: the Web conversion count of (experiment, variation, event) is the number of
\* (event, list position) pairs of in-window events of that name whose list holds the
\* pair at that position; the counts add up to the total length of the lists of the
\* in-window events.
C10_WebConversions ==
  ConversionsComputed =>
    /\ \A e \in Experiments, v \in Variations, n \in EventNames :
         /\ Cardinality({y \in RowsOf(conversion_count_web) :
              y.experiment_id = e /\ y.variation_id = v /\ y.event_name = n}) <= 1
         /\ WebConversions(e, v, n) =
              Sum([r \in InWindowEvents |->
                     IF r.event_name = n THEN events[r] * Positions(r, e, v) ELSE 0],
                  InWindowEvents)
    /\ Sum([i \in 1..Len(conversion_count_web) |-> conversion_count_web[i].conversion_count],
           1..Len(conversion_count_web))
         = Sum([r \in InWindowEvents |-> events[r] * Len(r.experiments)], InWindowEvents)

\* Two different in-window events of one subject and one name, each listing a pair
\* once, are both counted for it.
C10_Witness ==
  /\ ConversionsComputed
  /\ \E r1 \in InWindowEvents, r2 \in InWindowEvents, e \in Experiments, v \in Variations :
       /\ r1 # r2
       /\ r1.visitor_id = r2.visitor_id
       /\ r1.event_name = r2.event_name
       /\ Positions(r1, e, v) = 1
       /\ Positions(r2, e, v) = 1
       /\ WebConversions(e, v, r1.event_name) = 2

\* The in-window, non-holdback decisions of the subject s for the variation v of the
\* experiment e.
QualifyingDecisionsOf(e, v, s) == {r \in QualifyingDecisions(e, v) : r.visitor_id = s}

\* The event row r is a conversion for (e, v): it lies in the window, its subject has a
\* qualifying decision for (e, v), and it is not earlier than the earliest of them.
ConvertsFor(r, e, v) ==
  /\ InWindow(r.timestamp)
  /\ QualifyingDecisionsOf(e, v, r.visitor_id) # {}
  /\ r.timestamp >= EarliestOf(QualifyingDecisionsOf(e, v, r.visitor_id))

\* C14: the Full Stack conversion count of (experiment, variation, event) is the number
\* of event rows of that name that lie in the window and are not earlier than the
\* earliest in-window non-holdback decision of their subject for (experiment, variation):
\* each such event counts once, however many qualifying decisions the subject has and
\* whatever the event's `experiments` list holds, and no other event counts.
C14_FullStackConversions ==
  ConversionsComputed =>
    \A e \in Experiments, v \in Variations, n \in EventNames :
      /\ Cardinality({y \in RowsOf(conversion_count_fs) :
           y.experiment_id = e /\ y.variation_id = v /\ y.event_name = n}) <= 1
      /\ FSConversions(e, v, n) =
           BagCardinality([r \in {x \in DOMAIN events : x.event_name = n /\ ConvertsFor(x, e, v)}
                           |-> events[r]])

\* A subject with two qualifying decisions for a pair has an event whose `experiments`
\* list is empty: the event counts once for the pair.
C14_Witness ==
  /\ ConversionsComputed
  /\ \E r \in DOMAIN events, e \in Experiments, v \in Variations :
       /\ r.experiments = <<>>
       /\ BagCardinality([d \in QualifyingDecisionsOf(e, v, r.visitor_id) |-> decisions[d]]) = 2
       /\ FSConversions(e, v, r.event_name) = 1

\* A subject with qualifying decisions in two experiments has an event that counts for both.
C14_WitnessTwoExperiments ==
  /\ ConversionsComputed
  /\ \E r \in DOMAIN events, v \in Variations, w \in Variations :
       /\ QualifyingDecisionsOf("e1", v, r.visitor_id) # {}
       /\ QualifyingDecisionsOf("e2", w, r.visitor_id) # {}
       /\ FSConversions("e1", v, r.event_name) = 1
       /\ FSConversions("e2", w, r.event_name) = 1

\* ======================================================================
\* Properties of the two notebooks over the same decisions (specification SpecBoth)
\* ======================================================================

\* The queries notebook has read the decisions that the experiment-subjects notebook
\* loaded, and uses its window.
SameInput ==
  decisions = loaded_decisions /\ start = decisions_start /\ end = decisions_end

\* The count the subject_count result reports for (e, v): 0 when it has no row for it.
SubjectCountOf(e, v) ==
  ReportedCount({subject_count[i].subject_count : i \in CountRowsOf(e, v)})

\* No in-window decision is a holdback.
NoHoldbackInWindow ==
  \A r \in DOMAIN decisions : InWindow(r.timestamp) => r.is_holdback = FALSE

\* Every subject has in-window decisions for at most one variation of an experiment.
OneVariationPerSubject ==
  \A r1 \in DOMAIN decisions, r2 \in DOMAIN decisions :
    (/\ InWindow(r1.timestamp) /\ InWindow(r2.timestamp)
     /\ r1.visitor_id = r2.visitor_id /\ r1.experiment_id = r2.experiment_id)
      => r1.variation_id = r2.variation_id

\* No two decisions of one (experiment, subject) share a timestamp.
NoSharedTimestamp ==
  /\ \A r \in DOMAIN decisions : decisions[r] = 1
  /\ \A r1 \in DOMAIN decisions, r2 \in DOMAIN decisions :
       (/\ r1 # r2
        /\ r1.visitor_id = r2.visitor_id /\ r1.experiment_id = r2.experiment_id)
         => r1.timestamp # r2.timestamp

\* C16: over the same decisions and window, when no in-window decision is a holdback,
\* no subject has in-window decisions for two variations of an experiment and no two
\* decisions of an (experiment, subject) share a timestamp, the subject_count of every
\* (experiment, variation) equals its Full Stack unique-visitor count.
C16_SubjectCountIsFullStackVisitors ==
  (FSVisitorsComputed /\ SameInput /\ NoHoldbackInWindow /\ OneVariationPerSubject
     /\ NoSharedTimestamp) =>
    \A e \in Experiments, v \in Variations : SubjectCountOf(e, v) = FSVisitors(e, v)

\* A subject has two in-window decisions for a pair, at different times, and a decision
\* outside the window: the pair has one subject and one Full Stack visitor.
C16_Witness ==
  /\ FSVisitorsComputed /\ SameInput
  /\ NoHoldbackInWindow /\ OneVariationPerSubject /\ NoSharedTimestamp
  /\ \E e \in Experiments, v \in Variations :
       /\ Cardinality(QualifyingDecisions(e, v)) = 2
       /\ SubjectCountOf(e, v) = 1
       /\ FSVisitors(e, v) = 1

\* The loaded decisions with the is_holdback flag of the rows in F inverted.
WithFlagsChanged(F) ==
  LET Change(r) == IF r \in F THEN [r EXCEPT !.is_holdback = ~r.is_holdback] ELSE r
  IN  BagOfAll(Change, loaded_decisions)

\* The session of the queries notebook without the holdback decisions.
SessionWithoutHoldbacks ==
  [decisions |-> [r \in {x \in DOMAIN decisions : x.is_holdback = FALSE} |-> decisions[r]],
   events |-> events]

\* The in-window holdback decisions that are an earliest in-window decision of their
\* (experiment, subject).
EarliestHoldbacks ==
  {r \in DOMAIN loaded_decisions :
     /\ r.is_holdback
     /\ r \in InWindowDecisionsOf(r.experiment_id, r.visitor_id)
     /\ r.timestamp = EarliestOf(InWindowDecisionsOf(r.experiment_id, r.visitor_id))}

\* C17: over the same decisions and window, the experiment-subjects table is the one
\* the query gives when the is_holdback flags of any of the decisions are inverted; a
\* holdback decision that is an earliest in-window decision of its (experiment,
\* subject) gives a row of the table; and the Full Stack unique-visitor and conversion
\* counts are those the queries give without the holdback decisions.
C17_SubjectsIgnoreHoldback ==
  (ConversionsComputed /\ SameInput) =>
    /\ \A F \in SUBSET DOMAIN loaded_decisions :
         SeqToBag(experiment_subjects) =
           SubjectRows(WindowFilter(WithFlagsChanged(F), decisions_start, decisions_end))
    /\ \A r \in EarliestHoldbacks : Occurrences(experiment_subjects, SubjectColumns(r)) >= 1
    /\ unique_visitors_fs = UniqueVisitorsFSRows(SessionWithoutHoldbacks, start, end)
    /\ RowsOf(conversion_count_fs) = ConversionCountFSRows(SessionWithoutHoldbacks, start, end)

\* The only in-window decision of a subject for an experiment is a holdback, and the
\* subject has an in-window event after it: the subject has a row in the table, taken
\* from the holdback decision, and the variation has no Full Stack visitor and no
\* conversion.
C17_Witness ==
  /\ ConversionsComputed /\ SameInput
  /\ \E r \in EarliestHoldbacks, x \in DOMAIN events :
       /\ InWindowDecisionsOf(r.experiment_id, r.visitor_id) = {r}
       /\ x.visitor_id = r.visitor_id
       /\ InWindow(x.timestamp)
       /\ x.timestamp >= r.timestamp
       /\ Occurrences(experiment_subjects, SubjectColumns(r)) = 1
       /\ FSVisitors(r.experiment_id, r.variation_id) = 0
       /\ FSConversions(r.experiment_id, r.variation_id, x.event_name) = 0

====
